---- MODULE Spec2Model ----
(***************************************************************************)
(* Model of src/video_generator.py: the time parser, the image fetcher,    *)
(* the motion effect and the build_video pipeline.                         *)
(*                                                                         *)
(* Times are whole seconds.  Python floats are IEEE-754 binary64; the      *)
(* motion effect's arithmetic is modelled with correctly rounded binary64  *)
(* operations on multi-limb mantissas, because its results (1.15 - 0.15,   *)
(* int(w * s)) depend on the rounding.                                     *)
(***************************************************************************)
EXTENDS Integers, Sequences, FiniteSets, TLC

(***************************************************************************)
(* Natural numbers of any size: little-endian sequences of limbs in        *)
(* 0..Base-1 without leading zero limbs (zero is << >>).                    *)
(***************************************************************************)
Base == 2^15

LimbBits == 15

RECURSIVE Trim(_)
Trim(a) ==
  IF a = <<>> THEN a
  ELSE IF a[Len(a)] = 0 THEN Trim(SubSeq(a, 1, Len(a) - 1)) ELSE a

Rest(a) == IF a = <<>> THEN <<>> ELSE Tail(a)

Low(a) == IF a = <<>> THEN 0 ELSE Head(a)

RECURSIVE BigOfInt(_)
BigOfInt(n) == IF n = 0 THEN <<>> ELSE <<n % Base>> \o BigOfInt(n \div Base)

RECURSIVE BigToInt(_)
BigToInt(a) == IF a = <<>> THEN 0 ELSE Head(a) + Base * BigToInt(Tail(a))

RECURSIVE AddC(_, _, _)
AddLimb(a, b, s) == <<s % Base>> \o AddC(Rest(a), Rest(b), s \div Base)

AddC(a, b, c) ==
  IF a = <<>> /\ b = <<>> THEN (IF c = 0 THEN <<>> ELSE <<c>>)
  ELSE AddLimb(a, b, Low(a) + Low(b) + c)

BigAdd(a, b) == AddC(a, b, 0)

RECURSIVE SubB(_, _, _)
SubLimb(a, b, d) ==
  <<IF d < 0 THEN d + Base ELSE d>>
    \o SubB(Tail(a), Rest(b), IF d < 0 THEN 1 ELSE 0)

SubB(a, b, w) ==
  IF a = <<>> THEN <<>> ELSE SubLimb(a, b, Head(a) - Low(b) - w)

\* a - b, for a >= b
BigSub(a, b) == Trim(SubB(a, b, 0))

RECURSIVE MulS(_, _, _)
MulLimb(a, m, p) == <<p % Base>> \o MulS(Tail(a), m, p \div Base)

MulS(a, m, c) ==
  IF a = <<>> THEN (IF c = 0 THEN <<>> ELSE <<c>>)
  ELSE MulLimb(a, m, Head(a) * m + c)

RECURSIVE MulL(_, _)
MulL(a, b) ==
  IF b = <<>> THEN <<>>
  ELSE BigAdd(MulS(a, Head(b), 0), <<0>> \o MulL(a, Tail(b)))

BigMul(a, b) == Trim(MulL(a, b))

PutLimb(lower, limb) == [q |-> lower.q \o <<limb>>, r |-> lower.r]

\* a divided by a small m (0 < m < Base), from the top limb a[i] down
RECURSIVE DivS(_, _, _, _)
DivLimb(a, m, i, cur) == PutLimb(DivS(a, m, i - 1, cur % m), cur \div m)

DivS(a, m, i, r) ==
  IF i = 0 THEN [q |-> <<>>, r |-> r] ELSE DivLimb(a, m, i, r * Base + a[i])

TrimQuotient(d) == [q |-> Trim(d.q), r |-> d.r]

BigDivSmall(a, m) == TrimQuotient(DivS(a, m, Len(a), 0))

RECURSIVE CmpFrom(_, _, _)
CmpFrom(a, b, i) ==
  IF i = 0 THEN 0
  ELSE IF a[i] > b[i] THEN 1
  ELSE IF a[i] < b[i] THEN -1
  ELSE CmpFrom(a, b, i - 1)

BigCmp(a, b) ==
  IF Len(a) > Len(b) THEN 1
  ELSE IF Len(a) < Len(b) THEN -1
  ELSE CmpFrom(a, b, Len(a))

RECURSIVE Bits(_)
Bits(x) == IF x = 0 THEN 0 ELSE 1 + Bits(x \div 2)

BigBitLen(a) ==
  IF a = <<>> THEN 0 ELSE LimbBits * (Len(a) - 1) + Bits(a[Len(a)])

Zeros(n) == [i \in 1..n |-> 0]

\* a * 2^k
Shl(a, k) ==
  IF a = <<>> THEN <<>>
  ELSE Zeros(k \div LimbBits) \o MulS(a, 2^(k % LimbBits), 0)

\* floor(a / 2^k)
Shr(a, k) ==
  IF k \div LimbBits >= Len(a) THEN <<>>
  ELSE BigDivSmall(SubSeq(a, (k \div LimbBits) + 1, Len(a)),
                   2^(k % LimbBits)).q

(***************************************************************************)
(* binary64 values: (-1)^neg * m * 2^e with m a 53-bit mantissa, or zero.  *)
(* The exponents met here are far from the subnormal and overflow ranges.  *)
(***************************************************************************)
Precision == 53

FZero == [neg |-> FALSE, m |-> <<>>, e |-> 0]

\* the rounded mantissa q2 may have grown to Precision + 1 bits
Renormalized(neg, q2, e) ==
  IF BigBitLen(q2) > Precision
  THEN [neg |-> neg, m |-> Shr(q2, 1), e |-> e + 1]
  ELSE [neg |-> neg, m |-> q2, e |-> e]

\* q with the discarded part compared to one half (c) and its parity
RoundedUp(q, c, sticky) ==
  IF c > 0 \/ (c = 0 /\ (sticky \/ q[1] % 2 = 1))
  THEN BigAdd(q, <<1>>) ELSE q

\* M = q * 2^k + r: to nearest, ties to even
RoundQuotient(neg, M, e, sticky, k, q) ==
  Renormalized(neg,
               RoundedUp(q, BigCmp(BigSub(M, Shl(q, k)), Shl(<<1>>, k - 1)),
                         sticky),
               e + k)

RoundBits(neg, M, e, sticky, n) ==
  IF n = 0 THEN FZero
  ELSE IF n <= Precision
  THEN [neg |-> neg, m |-> Shl(M, Precision - n), e |-> e - (Precision - n)]
  ELSE RoundQuotient(neg, M, e, sticky, n - Precision, Shr(M, n - Precision))

\* M * 2^e (plus a nonzero amount below one unit of M when sticky), rounded
\* to nearest, ties to even
FRound(neg, M, e, sticky) == RoundBits(neg, M, e, sticky, BigBitLen(M))

Abs(n) == IF n < 0 THEN -n ELSE n

\* float(n) of an integer
FOfInt(n) == FRound(n < 0, BigOfInt(Abs(n)), 0, FALSE)

RoundedQuotient(neg, qr) == FRound(neg, qr.q, -(5 * LimbBits), qr.r # 0)

\* n / d of two integers (d # 0, |d| < Base), correctly rounded: the value of
\* a decimal literal such as 0.15 = 15/100, and of x / y for integral floats
FDivInt(n, d) ==
  IF n = 0 THEN FZero
  ELSE RoundedQuotient((n < 0) # (d < 0),
                       BigDivSmall(Shl(BigOfInt(Abs(n)), 5 * LimbBits), Abs(d)))

FNeg(a) == IF a.m = <<>> THEN a ELSE [a EXCEPT !.neg = ~a.neg]

FMul(a, b) ==
  IF a.m = <<>> \/ b.m = <<>> THEN FZero
  ELSE FRound(a.neg # b.neg, BigMul(a.m, b.m), a.e + b.e, FALSE)

\* the sum of (-1)^aneg * A * 2^e and (-1)^bneg * B * 2^e, c comparing A to B
AddSigned(aneg, A, bneg, B, e, c) ==
  IF aneg = bneg THEN FRound(aneg, BigAdd(A, B), e, FALSE)
  ELSE IF c = 0 THEN FZero
  ELSE IF c > 0 THEN FRound(aneg, BigSub(A, B), e, FALSE)
  ELSE FRound(bneg, BigSub(B, A), e, FALSE)

AddMagnitudes(aneg, A, bneg, B, e) ==
  AddSigned(aneg, A, bneg, B, e, BigCmp(A, B))

AddAligned(a, b, e) ==
  AddMagnitudes(a.neg, Shl(a.m, a.e - e), b.neg, Shl(b.m, b.e - e), e)

FAdd(a, b) ==
  IF a.m = <<>> THEN b
  ELSE IF b.m = <<>> THEN a
  ELSE AddAligned(a, b, IF a.e < b.e THEN a.e ELSE b.e)

FSub(a, b) == FAdd(a, FNeg(b))

\* -1, 0 or 1
FSign(a) == IF a.m = <<>> THEN 0 ELSE IF a.neg THEN -1 ELSE 1

FLe(a, b) == FSign(FSub(b, a)) >= 0

FEq(a, b) == FSign(FSub(b, a)) = 0

Signed(neg, n) == IF neg THEN -n ELSE n

\* int(x): truncation toward zero
FTrunc(a) ==
  Signed(a.neg, BigToInt(IF a.e >= 0 THEN Shl(a.m, a.e) ELSE Shr(a.m, -a.e)))

(***************************************************************************)
(* Python values that reach parse_time: None, a number, or a string, here  *)
(* a sequence of one-character strings.                                    *)
(***************************************************************************)
NoneVal == [k |-> "none"]

Num(n) == [k |-> "num", n |-> n]

Str(s) == [k |-> "str", s |-> s]

DigitChars == <<"0", "1", "2", "3", "4", "5", "6", "7", "8", "9">>

IsDigit(c) == \E i \in 1..Len(DigitChars) : DigitChars[i] = c

DigitVal(c) == (CHOOSE i \in 1..Len(DigitChars) : DigitChars[i] = c) - 1

RECURSIVE Decimal(_)
Decimal(n) ==
  IF n < 10 THEN <<DigitChars[n + 1]>>
  ELSE Decimal(n \div 10) \o <<DigitChars[(n % 10) + 1]>>

\* str(val)
PyStr(val) ==
  IF val.k = "str" THEN val.s
  ELSE IF val.n < 0 THEN <<"-">> \o Decimal(-val.n) ELSE Decimal(val.n)

HasColon(s) == \E i \in 1..Len(s) : s[i] = ":"

\* s.split(":")
RECURSIVE Split(_)
Split(s) ==
  IF ~HasColon(s) THEN <<s>>
  ELSE LET i == CHOOSE j \in 1..Len(s) :
                  s[j] = ":" /\ \A l \in 1..(j - 1) : s[l] # ":"
       IN  <<SubSeq(s, 1, i - 1)>> \o Split(SubSeq(s, i + 1, Len(s)))

RECURSIVE Strip(_)
Strip(s) ==
  IF s = <<>> THEN s
  ELSE IF Head(s) = " " THEN Strip(Tail(s))
  ELSE IF s[Len(s)] = " " THEN Strip(SubSeq(s, 1, Len(s) - 1))
  ELSE s

RECURSIVE DigitsValue(_)
DigitsValue(s) ==
  IF s = <<>> THEN 0
  ELSE 10 * DigitsValue(SubSeq(s, 1, Len(s) - 1)) + DigitVal(s[Len(s)])

Raise(name) == [exc |-> name, v |-> 0]

Return(v) == [exc |-> "none", v |-> v]

Digits(body) ==
  IF body = <<>> \/ \E i \in 1..Len(body) : ~IsDigit(body[i])
  THEN Raise("ValueError")
  ELSE Return(DigitsValue(body))

WithSign(sign, r) ==
  IF r.exc = "none" /\ sign = "-" THEN Return(-r.v) ELSE r

FloatOf(t) ==
  IF t # <<>> /\ Head(t) \in {"-", "+"}
  THEN WithSign(Head(t), Digits(Tail(t)))
  ELSE Digits(t)

\* float(s) for the strings of the model's alphabet (digits, sign, blank,
\* colon, letter): surrounding blanks are dropped, one sign is allowed, and
\* at least one digit must follow
PyFloat(s) == FloatOf(Strip(s))

\* line 22, with float(m) evaluated first
Seconds(m, sec) ==
  IF m.exc # "none" THEN m
  ELSE IF sec.exc # "none" THEN sec
  ELSE Return(m.v * 60 + sec.v)

\* a variant that unpacks the first two parts of a longer split
UnpackFirstTwo(parts) ==
  IF Len(parts) < 2 THEN Raise("ValueError")
  ELSE Seconds(PyFloat(parts[1]), PyFloat(parts[2]))

\* line 21: m, s = val.split(":")
Unpack(parts) ==
  IF Len(parts) # 2 THEN Raise("ValueError")
  ELSE Seconds(PyFloat(parts[1]), PyFloat(parts[2]))

\* lines 20-23
ParseString(s) == IF HasColon(s) THEN Unpack(Split(s)) ELSE PyFloat(s)

\* the body of parse_time's try block
ParseTry(val) == ParseString(PyStr(val))

\* lines 24-25
Except(r) == IF r.exc # "none" THEN Return(0) ELSE r

parse_time(val) == IF val = NoneVal THEN Return(0) ELSE Except(ParseTry(val))

(***************************************************************************)
(* apply_motion's effect(get_frame, t) for a clip of duration d and the    *)
(* target size (w, h): what it computes before cropping.                   *)
(***************************************************************************)
DIMENSIONS == [r \in {"16:9", "9:16"} |->
                 IF r = "16:9" THEN <<1920, 1080>> ELSE <<1080, 1920>>]

Motions ==
  {"none", "zoom-in", "zoom-out", "pan-left", "pan-right", "pan-up", "pan-down"}

F1 == FOfInt(1)

K == FDivInt(15, 100)

F115 == FDivInt(115, 100)

ZoomOutScale(p) == FSub(F115, FMul(K, p))

ZoomInScale(p) == FAdd(F1, FMul(K, p))

NoFrame == [exc |-> "ZeroDivisionError", p |-> FZero, s |-> FZero,
            nw |-> 0, nh |-> 0, ox |-> FZero, oy |-> FZero]

\* lines 58-60
Scale(motion, p) ==
  IF motion = "zoom-in" THEN ZoomInScale(p)
  ELSE IF motion = "zoom-out" THEN ZoomOutScale(p)
  ELSE F1

\* line 62: int(w * s)
Scaled(w, s) == FTrunc(FMul(FOfInt(w), s))

\* lines 66, 68, 69
OriginX(motion, nw, w, p) ==
  IF motion = "pan-right" THEN FMul(FOfInt(nw - w), p)
  ELSE IF motion = "pan-left" THEN FMul(FOfInt(nw - w), FSub(F1, p))
  ELSE FDivInt(nw - w, 2)

\* lines 66, 70, 71
OriginY(motion, nh, h, p) ==
  IF motion = "pan-up" THEN FMul(FOfInt(nh - h), FSub(F1, p))
  ELSE IF motion = "pan-down" THEN FMul(FOfInt(nh - h), p)
  ELSE FDivInt(nh - h, 2)

Cropped(motion, w, h, p, s, nw, nh) ==
  [exc |-> "none", p |-> p, s |-> s, nw |-> nw, nh |-> nh,
   ox |-> OriginX(motion, nw, w, p), oy |-> OriginY(motion, nh, h, p)]

Resized(motion, w, h, p, s) ==
  Cropped(motion, w, h, p, s, Scaled(w, s), Scaled(h, s))

Sampled(motion, w, h, p) == Resized(motion, w, h, p, Scale(motion, p))

\* t / clip.duration raises ZeroDivisionError for a clip of duration 0
effect(motion, w, h, t, d) ==
  IF d = 0 THEN NoFrame ELSE Sampled(motion, w, h, FDivInt(t, d))

(***************************************************************************)
(* generate_image: the working directory is the set of file names in it;   *)
(* resp is what the endpoint and the disk do when the request is made.     *)
(***************************************************************************)
NoImage == <<>>

Filename(index) == <<"scene_", index, ".jpg">>

Responses ==
  {[net |-> "reply", status |-> 200, disk |-> "ok"],
   [net |-> "reply", status |-> 200, disk |-> "open fails"],
   [net |-> "reply", status |-> 200, disk |-> "write fails"],
   [net |-> "reply", status |-> 404, disk |-> "ok"],
   [net |-> "reply", status |-> 500, disk |-> "ok"],
   [net |-> "exception", status |-> 0, disk |-> "ok"]}

Payload(prompt, ratio) == [prompt |-> prompt, size |-> ratio]

\* lines 40-50: the request, its reply written to filename.
\* ret: the returned path, or NoImage for None; files: the directory after
\* the call; posts: the request bodies sent
Requested(fs, filename, sent, resp) ==
  IF resp.net = "exception"
  THEN [ret |-> NoImage, files |-> fs, posts |-> sent]
  ELSE IF resp.status = 200
  THEN IF resp.disk = "ok"
       THEN [ret |-> filename, files |-> fs \cup {filename}, posts |-> sent]
       ELSE [ret |-> NoImage,
             files |-> IF resp.disk = "write fails"
                       THEN fs \cup {filename} ELSE fs,
             posts |-> sent]
  ELSE [ret |-> NoImage, files |-> fs, posts |-> sent]

\* a variant without the check of lines 36-38
AlwaysRequested(fs, prompt, ratio, index, resp) ==
  Requested(fs, Filename(index), <<Payload(prompt, ratio)>>, resp)

generate_image(fs, prompt, ratio, index, resp) ==
  IF Filename(index) \in fs
  THEN [ret |-> Filename(index), files |-> fs, posts |-> <<>>]
  ELSE Requested(fs, Filename(index), <<Payload(prompt, ratio)>>, resp)

(***************************************************************************)
(* build_video: the clips and the moviepy operations it uses, by the       *)
(* durations they carry.                                                   *)
(***************************************************************************)
Absent == [k |-> "absent"]

\* dict.get(key, default)
Get(v, default) == IF v = Absent THEN default ELSE v

\* DIMENSIONS.get(ratio, (1920, 1080))
DimensionsGet(ratio) ==
  IF ratio \in DOMAIN DIMENSIONS THEN DIMENSIONS[ratio] ELSE <<1920, 1080>>

\* ImageClip(img_path).set_duration(dur)
ImageClip(img_path, scene_num, dur) ==
  [image |-> img_path, scene |-> scene_num, duration |-> dur,
   motion |-> "none", crossfadein |-> 0]

\* clip.fl(effect) evaluates effect at t = 0 to learn the frame size, so an
\* exception of effect at t = 0 is raised by apply_motion itself
apply_motion(clip, motion, size) ==
  IF motion # "none"
  THEN LET frame == effect(motion, size[1], size[2], 0, clip.duration)
       IN  [exc |-> frame.exc, clip |-> [clip EXCEPT !.motion = motion]]
  ELSE [exc |-> "none", clip |-> clip]

\* lines 111-112
Transition(transition, c) ==
  IF c.exc = "none" /\ transition = "crossfade"
  THEN [c EXCEPT !.clip.crossfadein = 1]
  ELSE c

\* lines 107-112: the clip of a scene whose image is at img_path
SceneClip(img_path, scene_num, scene, size) ==
  Transition(scene.transition,
             apply_motion(ImageClip(img_path, scene_num,
                                    parse_time(Get(scene.duration, Num(5))).v),
                          scene.motion, size))

\* a variant that puts the new clip first
KeepClipFirst(clips, img_path, clip) ==
  IF img_path # NoImage THEN <<clip>> \o clips ELSE clips

\* lines 106 and 114
KeepClip(clips, img_path, clip) ==
  IF img_path # NoImage THEN Append(clips, clip) ELSE clips

RECURSIVE SumDurations(_)
SumDurations(clips) ==
  IF clips = <<>> THEN 0
  ELSE clips[1].duration + SumDurations(Tail(clips))

\* a variant in which every crossfade overlaps its predecessor by its length
ConcatenateOverlapping(clips) ==
  [duration |-> SumDurations(clips)
                  - Cardinality({i \in 1..Len(clips) : clips[i].crossfadein = 1}),
   audio |-> <<>>]

\* concatenate_videoclips(video_clips, method="compose"): the clips are laid
\* end to end with no padding, whatever their crossfadein
concatenate_videoclips(clips) ==
  [duration |-> SumDurations(clips), audio |-> <<>>]

Extensions == <<".mp3", ".wav", ".ogg">>

\* the files of assets/soundEffects, with the length of the audio in each;
\* hiss.mp3 is a file AudioFileClip cannot read
AssetFiles == {<<"boom", ".wav">>, <<"boom", ".ogg">>, <<"hiss", ".mp3">>}

AssetLength(f) == IF f = <<"boom", ".wav">> THEN 6 ELSE 9

Readable(f) == f # <<"hiss", ".mp3">>

NoPath == <<>>

\* a variant that probes the first extension only
FindFirstExtension(name) ==
  IF <<name, Extensions[1]>> \in AssetFiles
  THEN <<name, Extensions[1]>> ELSE NoPath

\* lines 138-143
FindAsset(name) ==
  IF \E i \in 1..Len(Extensions) : <<name, Extensions[i]>> \in AssetFiles
  THEN <<name, Extensions[CHOOSE i \in 1..Len(Extensions) :
                  /\ <<name, Extensions[i]>> \in AssetFiles
                  /\ \A j \in 1..(i - 1) :
                        <<name, Extensions[j]>> \notin AssetFiles]>>
  ELSE NoPath

\* clip.subclip(0, t_end): a negative t_end counts from the clip's end
Subclip(duration, t_end) ==
  IF t_end < 0 THEN duration + t_end ELSE t_end

\* lines 150-153; truthy(duration) is Python's `if duration:`
Truthy(val) ==
  /\ val \notin {Absent, NoneVal}
  /\ val.k = "num" => val.n # 0
  /\ val.k = "str" => val.s # <<>>

Trimmed(length, duration) ==
  IF Truthy(duration)
  THEN LET dur_sec == parse_time(duration).v
       IN  IF dur_sec < length THEN Subclip(length, dur_sec) ELSE length
  ELSE length

\* lines 146-161: the segment of a found asset, or the exception caught at 163
AudioSegment(f_path, sfx) ==
  IF ~Readable(f_path) THEN [exc |-> "OSError", clip |-> <<>>]
  ELSE [exc |-> "none",
        clip |-> [name |-> sfx.name, file |-> f_path,
                  start |-> parse_time(Get(sfx.start, Num(0))).v,
                  duration |-> Trimmed(AssetLength(f_path), sfx.duration)]]

\* lines 161-164
Collected(clips, ac) ==
  IF ac.exc = "none" THEN Append(clips, ac.clip) ELSE clips

\* lines 145-166
Resolved(clips, sfx, f_path) ==
  IF f_path # NoPath THEN Collected(clips, AudioSegment(f_path, sfx))
  ELSE clips

KeepAudio(clips, sfx) == Resolved(clips, sfx, FindAsset(sfx.name))

Max(a, b) == IF a > b THEN a ELSE b

\* CompositeAudioClip(audio_clips).duration: the latest end of its clips
RECURSIVE CompositeDuration(_)
CompositeDuration(clips) ==
  IF Len(clips) = 1 THEN clips[1].start + clips[1].duration
  ELSE Max(clips[1].start + clips[1].duration, CompositeDuration(Tail(clips)))

\* a variant that leaves the composite as long as it is
Unclamped(comp_duration, video_duration) == comp_duration

\* lines 172-173
ClampAudio(comp_duration, video_duration) ==
  IF comp_duration > video_duration THEN video_duration ELSE comp_duration

\* lines 169-174
MergeAudio(video, clips) ==
  IF clips # <<>>
  THEN [video EXCEPT !.audio =
          <<[duration |-> ClampAudio(CompositeDuration(clips), video.duration),
             clips |-> clips]>>]
  ELSE video

VARIABLES pt_call, mo_call, files, gi_call, fetched,
          family, pc, ratio, scenes, acquired, video_clips, final_video,
          sfx_log, audio_clips, output, error

pureVars == <<pt_call, mo_call>>

fetchVars == <<gi_call, fetched>>

runVars == <<family, pc, ratio, scenes, acquired, video_clips, final_video,
             sfx_log, audio_clips, output, error>>

vars == <<pureVars, files, fetchVars, runVars>>

(***************************************************************************)
(* Bounds of the inputs.                                                   *)
(***************************************************************************)
MaxLen == 4

MaxNum == 90

MaxDur == 4

MaxScenes == 2

MaxSfx == 2

Alphabet == {"0", "1", "3", "5", ":", "-", " ", "x"}

RECURSIVE Strings(_)
Strings(n) ==
  IF n = 0 THEN {<<>>}
  ELSE LET shorter == Strings(n - 1)
       IN  shorter \cup {Append(s, c) : s \in {x \in shorter : Len(x) = n - 1},
                                         c \in Alphabet}

TimeInputs ==
  {NoneVal} \cup {Num(n) : n \in (-MaxNum)..MaxNum}
            \cup {Str(s) : s \in Strings(MaxLen)}

NoCall == [fn |-> "none"]

MotionInputs ==
  {[fn |-> "input", motion |-> motion, w |-> DIMENSIONS[r][1],
    h |-> DIMENSIONS[r][2], t |-> t, d |-> d] :
     motion \in Motions, r \in DOMAIN DIMENSIONS, d \in 0..MaxDur,
     t \in 0..MaxDur}

IdleFetch == files = {} /\ gi_call = NoCall /\ fetched = {}

IdleRun ==
  /\ family = "none" /\ pc = "idle" /\ ratio = "16:9"
  /\ scenes = <<>> /\ acquired = <<>> /\ video_clips = <<>>
  /\ final_video = <<>> /\ sfx_log = <<>> /\ audio_clips = <<>>
  /\ output = <<>> /\ error = "none"

(***************************************************************************)
(* parse_time applied to any input value.                                  *)
(***************************************************************************)
InitParse ==
  /\ pt_call \in {[fn |-> "input", arg |-> val] : val \in TimeInputs}
  /\ mo_call = NoCall
  /\ IdleFetch
  /\ IdleRun

ParseCall ==
  /\ pt_call.fn = "input"
  /\ pt_call' = [fn |-> "parse_time", arg |-> pt_call.arg,
                 ret |-> parse_time(pt_call.arg)]
  /\ UNCHANGED <<mo_call, files, fetchVars, runVars>>

NextParse == ParseCall

SpecParse == InitParse /\ [][NextParse]_vars

(***************************************************************************)
(* The motion effect sampled at a time t of a clip of duration d, t <= d.  *)
(***************************************************************************)
InitMotion ==
  /\ pt_call = NoCall
  /\ mo_call \in {c \in MotionInputs : c.t <= c.d}
  /\ IdleFetch
  /\ IdleRun

MotionSample ==
  /\ mo_call.fn = "input"
  /\ mo_call' = [mo_call EXCEPT !.fn = "effect"]
                  @@ [out |-> effect(mo_call.motion, mo_call.w, mo_call.h,
                                     mo_call.t, mo_call.d)]
  /\ UNCHANGED <<pt_call, files, fetchVars, runVars>>

NextMotion == MotionSample

SpecMotion == InitMotion /\ [][NextMotion]_vars

(***************************************************************************)
(* generate_image called any number of times, in one run or several, with  *)
(* any scene index: the working directory persists between the calls.      *)
(***************************************************************************)
Prompts == {"a castle", "a forest"}

Ratios == {"16:9", "9:16", "4:3"}

InitFetch ==
  /\ pt_call = NoCall /\ mo_call = NoCall
  /\ IdleFetch
  /\ IdleRun

Fetched(prompt, r, index, resp, got) ==
  /\ files' = got.files
  /\ gi_call' = [fn |-> "generate_image", prompt |-> prompt, ratio |-> r,
                 index |-> index, resp |-> resp,
                 existed |-> Filename(index) \in files,
                 prior |-> index \in fetched,
                 ret |-> got.ret, posts |-> got.posts]
  /\ fetched' = IF got.ret # NoImage /\ got.posts # <<>>
                THEN fetched \cup {index} ELSE fetched

FetchCall ==
  /\ \E prompt \in Prompts, r \in Ratios, index \in 1..MaxScenes,
        resp \in Responses :
        Fetched(prompt, r, index, resp,
                generate_image(files, prompt, r, index, resp))
  /\ UNCHANGED <<pureVars, runVars>>

NextFetch == FetchCall

SpecFetch == InitFetch /\ [][NextFetch]_vars

(***************************************************************************)
(* One run of build_video.  The scene list and the sound-effect list are   *)
(* read one element per loop iteration, and the model fixes each element   *)
(* when its iteration begins.  Two families of inputs are explored: in     *)
(* "scenes" the scene list, the directory and the endpoint vary widely and *)
(* the sound effects little, in "effects" the reverse.                     *)
(***************************************************************************)
Scene(duration, motion, transition) ==
  [bg_prompt |-> "a castle", duration |-> duration, motion |-> motion,
   transition |-> transition]

SceneChoices(fam) ==
  IF fam = "scenes"
  THEN {Scene(d, m, t) : d \in {NoneVal, Num(3), Str(<<"0", ":", "0", "4">>)},
                         m \in {"none", "zoom-in"},
                         t \in {"none", "crossfade"}}
  ELSE {Scene(d, "none", "none") : d \in {Absent, Num(3)}}

ResponseChoices(fam) ==
  IF fam = "scenes" THEN Responses
  ELSE {r \in Responses : r.disk = "ok" /\ r.status \in {200, 404}}

Sfx(name, start, duration) ==
  [name |-> name, start |-> start, volume |-> "0.5", duration |-> duration,
   fade_in |-> 0, fade_out |-> 0]

SfxChoices(fam) ==
  IF fam = "scenes"
  THEN {Sfx("boom", Absent, Absent)}
  ELSE {Sfx(n, s, d) : n \in {"boom", "hiss", "nope"},
                       s \in {Absent, Str(<<"0", ":", "0", "5">>)},
                       d \in {Absent, Str(<<"0", ":", "0", "2">>)}}

FileChoices(fam) ==
  IF fam = "scenes" THEN SUBSET {Filename(i) : i \in 1..MaxScenes} ELSE {{}}

RatioChoices(fam) == IF fam = "scenes" THEN {"16:9"} ELSE Ratios

Init ==
  /\ pt_call = NoCall /\ mo_call = NoCall
  /\ gi_call = NoCall /\ fetched = {}
  /\ family \in {"scenes", "effects"}
  /\ files \in FileChoices(family)
  /\ pc = "start" /\ ratio = "16:9"
  /\ scenes = <<>> /\ acquired = <<>> /\ video_clips = <<>>
  /\ final_video = <<>> /\ sfx_log = <<>> /\ audio_clips = <<>>
  /\ output = <<>> /\ error = "none"

\* lines 186-187: every exception raised in the body ends the run here
Caught(exc) == [pc |-> "caught", error |-> exc]

\* lines 80-99: the input is a dict or a JSON text, or absent
Start ==
  /\ pc = "start"
  /\ \E input \in {"given", "absent", "malformed"}, r \in RatioChoices(family) :
        /\ pc' = IF input = "given" THEN "scenes"
                 ELSE IF input = "absent" THEN "returned"
                 ELSE Caught("JSONDecodeError").pc
        /\ error' = IF input = "malformed"
                    THEN Caught("JSONDecodeError").error ELSE error
        /\ ratio' = IF input = "given" THEN r ELSE ratio
  /\ UNCHANGED <<pureVars, files, fetchVars, family, scenes, acquired,
                 video_clips, final_video, sfx_log, audio_clips, output>>

\* lines 106-114: c is the clip built for the scene, or the exception
SceneBuilt(img_path, c) ==
  IF c.exc # "none"
  THEN /\ pc' = Caught(c.exc).pc
       /\ error' = Caught(c.exc).error
       /\ UNCHANGED video_clips
  ELSE /\ video_clips' = KeepClip(video_clips, img_path, c.clip)
       /\ UNCHANGED <<pc, error>>

SceneFetched(scene, scene_num, img) ==
  /\ scenes' = Append(scenes, scene)
  /\ acquired' = Append(acquired, img.ret # NoImage)
  /\ files' = img.files
  /\ SceneBuilt(img.ret,
                IF img.ret # NoImage
                THEN SceneClip(img.ret, scene_num, scene, DimensionsGet(ratio))
                ELSE [exc |-> "none", clip |-> <<>>])

\* lines 102-114: one iteration of the scene loop
SceneStep ==
  /\ pc = "scenes"
  /\ Len(scenes) < MaxScenes
  /\ \E scene \in SceneChoices(family), resp \in ResponseChoices(family) :
        SceneFetched(scene, Len(scenes) + 1,
                     generate_image(files, scene.bg_prompt, ratio,
                                    Len(scenes) + 1, resp))
  /\ UNCHANGED <<pureVars, fetchVars, family, ratio, final_video, sfx_log,
                 audio_clips, output>>

\* a variant without the check of lines 116-118
NeverEmpty(clips) == FALSE

\* lines 116-118: nothing to render
NoScenes(clips) == clips = <<>>

\* lines 116-121: the scene list is exhausted
ScenesDone ==
  /\ pc = "scenes"
  /\ IF NoScenes(video_clips)
     THEN pc' = "returned" /\ UNCHANGED final_video
     ELSE /\ pc' = "effects"
          /\ final_video' = <<concatenate_videoclips(video_clips)>>
  /\ UNCHANGED <<pureVars, files, fetchVars, family, ratio, scenes, acquired,
                 video_clips, sfx_log, audio_clips, output, error>>

\* lines 127-166: one iteration of the sound-effect loop
SfxStep ==
  /\ pc = "effects"
  /\ Len(sfx_log) < MaxSfx
  /\ \E sfx \in SfxChoices(family) :
        /\ sfx_log' = Append(sfx_log, sfx.name)
        /\ audio_clips' = KeepAudio(audio_clips, sfx)
  /\ UNCHANGED <<pureVars, files, fetchVars, family, pc, ratio, scenes,
                 acquired, video_clips, final_video, output, error>>

\* lines 168-184: the sound-effect list is exhausted
Export ==
  /\ pc = "effects"
  /\ final_video' = <<MergeAudio(final_video[1], audio_clips)>>
  /\ output' = final_video'
  /\ pc' = "done"
  /\ UNCHANGED <<pureVars, files, fetchVars, family, ratio, scenes, acquired,
                 video_clips, sfx_log, audio_clips, error>>

Next == Start \/ SceneStep \/ ScenesDone \/ SfxStep \/ Export

Spec == Init /\ [][Next]_vars

(***************************************************************************)
(* Properties of parse_time (SpecParse).                                   *)
(***************************************************************************)
Blanks(s, lo, hi) == \A k \in lo..hi : s[k] = " "

AllDigits(s, lo, hi) == lo <= hi /\ \A k \in lo..hi : IsDigit(s[k])

RECURSIVE Positional(_, _, _)
Positional(s, lo, hi) ==
  IF hi < lo THEN 0 ELSE 10 * Positional(s, lo, hi - 1) + DigitVal(s[hi])

\* <<lo, hi, sign>>: s is blanks, an optional sign, the digits s[lo..hi], blanks
Readings(s) ==
  {r \in (1..Len(s)) \X (1..Len(s)) \X {-1, 1} :
     /\ AllDigits(s, r[1], r[2])
     /\ Blanks(s, r[2] + 1, Len(s))
     /\ \/ r[3] = 1 /\ Blanks(s, 1, r[1] - 1)
        \/ /\ r[1] > 1
           /\ s[r[1] - 1] = (IF r[3] = 1 THEN "+" ELSE "-")
           /\ Blanks(s, 1, r[1] - 2)}

IsNumeric(s) == Readings(s) # {}

ReadingValue(s, r) == r[3] * Positional(s, r[1], r[2])

NumericValue(s) == ReadingValue(s, CHOOSE r \in Readings(s) : TRUE)

ColonsOf(s) == {i \in 1..Len(s) : s[i] = ":"}

Before(s, i) == SubSeq(s, 1, i - 1)

After(s, i) == SubSeq(s, i + 1, Len(s))

MinutesSeconds(s, i) ==
  IF IsNumeric(Before(s, i)) /\ IsNumeric(After(s, i))
  THEN 60 * NumericValue(Before(s, i)) + NumericValue(After(s, i))
  ELSE 0

ExpectedSeconds(val) ==
  IF val.k = "none" THEN 0
  ELSE IF val.k = "num" THEN val.n
  ELSE IF ColonsOf(val.s) = {}
  THEN (IF IsNumeric(val.s) THEN NumericValue(val.s) ELSE 0)
  ELSE IF Cardinality(ColonsOf(val.s)) = 1
  THEN MinutesSeconds(val.s, CHOOSE i \in ColonsOf(val.s) : TRUE)
  ELSE 0

\* C7: parse_time never raises; it returns 60*M + S for "M:S" with one colon
\* and numeric parts, the number for a number or a numeric string, and 0 for
\* None and for every unparsable value (more than one colon included).
C7_ParseTimeTotal ==
  pt_call.fn = "parse_time" =>
    /\ pt_call.ret.exc = "none"
    /\ pt_call.ret.v = ExpectedSeconds(pt_call.arg)

C7_Witness ==
  /\ pt_call.fn = "parse_time"
  /\ pt_call.arg = Str(<<"1", ":", "1", "3">>)
  /\ pt_call.ret = Return(73)

\* C8: the value parse_time returns is a non-negative number of seconds for
\* every input value.
C8_NonNegative == pt_call.fn = "parse_time" => pt_call.ret.v >= 0

(***************************************************************************)
(* Properties of the motion effect (SpecMotion).                           *)
(***************************************************************************)
Within(lo, x, hi) == FLe(lo, x) /\ FLe(x, hi)

\* C10: for a clip of duration d > 0 and every sample time t in [0, d] the
\* effect does not fail, its progress p is in [0, 1], zoom-in has scale
\* exactly 1.0 at t = 0 and 1 + k at t = d with a centered crop, zoom-out has
\* scale 1 + k at t = 0 and 1.0 at t = d, pan-right has ox = 0 at t = 0 and
\* ox = nw - w at t = d (pan-left the reverse, pan-down and pan-up likewise on
\* oy), and the crop window lies inside the resized canvas.
C10_MotionFrame ==
  (mo_call.fn = "effect" /\ mo_call.d > 0) =>
    /\ mo_call.out.exc = "none"
    /\ Within(FZero, mo_call.out.p, F1)
    /\ (mo_call.motion = "zoom-in" /\ mo_call.t = 0) => mo_call.out.s = F1
    /\ (mo_call.motion = "zoom-in" /\ mo_call.t = mo_call.d) =>
          /\ mo_call.out.s = FAdd(F1, K)
          /\ mo_call.out.ox = FDivInt(mo_call.out.nw - mo_call.w, 2)
          /\ mo_call.out.oy = FDivInt(mo_call.out.nh - mo_call.h, 2)
    /\ (mo_call.motion = "zoom-out" /\ mo_call.t = 0) =>
          mo_call.out.s = FAdd(F1, K)
    /\ (mo_call.motion = "zoom-out" /\ mo_call.t = mo_call.d) =>
          mo_call.out.s = F1
    /\ (mo_call.motion \in {"pan-right", "pan-left"}
          /\ mo_call.t \in {0, mo_call.d}) =>
          mo_call.out.ox =
            (IF (mo_call.motion = "pan-right") = (mo_call.t = 0)
             THEN FZero ELSE FOfInt(mo_call.out.nw - mo_call.w))
    /\ (mo_call.motion \in {"pan-down", "pan-up"}
          /\ mo_call.t \in {0, mo_call.d}) =>
          mo_call.out.oy =
            (IF (mo_call.motion = "pan-down") = (mo_call.t = 0)
             THEN FZero ELSE FOfInt(mo_call.out.nh - mo_call.h))
    /\ Within(FZero, mo_call.out.ox, FOfInt(mo_call.out.nw - mo_call.w))
    /\ Within(FZero, mo_call.out.oy, FOfInt(mo_call.out.nh - mo_call.h))

(***************************************************************************)
(* Properties of generate_image (SpecFetch).                               *)
(***************************************************************************)
\* C5: a call of generate_image with index N returns scene_N.jpg without a
\* request when that file exists, whatever the prompt and ratio; otherwise it
\* sends exactly one request, returns the path only on a reply of status 200
\* whose body was written to scene_N.jpg, and returns no image on every
\* other status and on a transport failure.  Once a fetch for N has
\* succeeded, no later call with index N sends a request.
C5_FetchOnce ==
  gi_call.fn = "generate_image" =>
    /\ gi_call.existed =>
          gi_call.ret = Filename(gi_call.index) /\ gi_call.posts = <<>>
    /\ ~gi_call.existed =>
          /\ Len(gi_call.posts) = 1
          /\ gi_call.ret \in {NoImage, Filename(gi_call.index)}
          /\ gi_call.ret # NoImage =>
                /\ gi_call.resp.net = "reply" /\ gi_call.resp.status = 200
                /\ Filename(gi_call.index) \in files
          /\ (gi_call.resp.net = "exception" \/ gi_call.resp.status # 200) =>
                gi_call.ret = NoImage
          /\ gi_call.resp = [net |-> "reply", status |-> 200, disk |-> "ok"] =>
                gi_call.ret = Filename(gi_call.index)
    /\ gi_call.prior => gi_call.posts = <<>>

C5_Witness ==
  /\ gi_call.fn = "generate_image"
  /\ gi_call.prior
  /\ gi_call.prompt = "a forest"
  /\ gi_call.resp.status = 500
  /\ gi_call.ret = Filename(gi_call.index)

(***************************************************************************)
(* Properties of build_video (Spec).                                       *)
(***************************************************************************)
ParsedDuration(scene) == parse_time(Get(scene.duration, Num(5))).v

\* the numbers of the scenes 1..n whose image was acquired, in input order
RECURSIVE SurvivorsUpTo(_)
SurvivorsUpTo(n) ==
  IF n = 0 THEN <<>>
  ELSE IF acquired[n] THEN Append(SurvivorsUpTo(n - 1), n)
  ELSE SurvivorsUpTo(n - 1)

\* the sum of their parsed durations
RECURSIVE SurvivorTotal(_)
SurvivorTotal(n) ==
  IF n = 0 THEN 0
  ELSE SurvivorTotal(n - 1)
         + (IF acquired[n] THEN ParsedDuration(scenes[n]) ELSE 0)

\* C1: the clips of the timeline are exactly the scenes whose image
\* acquisition succeeded, in input order, each with its own image; a failed
\* acquisition skips the scene and never aborts the run.
C1_SurvivorsInOrder ==
  /\ Len(acquired) = Len(scenes)
  /\ pc \in {"scenes", "returned", "effects", "done"} =>
        /\ [i \in 1..Len(video_clips) |-> video_clips[i].scene]
             = SurvivorsUpTo(Len(acquired))
        /\ \A i \in 1..Len(video_clips) :
              video_clips[i].image = Filename(video_clips[i].scene)
  /\ (pc = "caught" /\ acquired # <<>>) => acquired[Len(acquired)]

C1_Witness ==
  /\ pc = "effects"
  /\ acquired = <<FALSE, TRUE>>
  /\ Len(video_clips) = 1
  /\ video_clips[1].scene = 2

\* the end of the latest audio segment
AudioSpan ==
  CHOOSE m \in {audio_clips[i].start + audio_clips[i].duration :
                  i \in 1..Len(audio_clips)} :
    \A j \in 1..Len(audio_clips) :
       audio_clips[j].start + audio_clips[j].duration <= m

\* C2: when the output is encoded with at least one sound effect, its audio
\* is never longer than its video; when the composite audio span exceeds the
\* video's duration the audio lasts exactly as long as the video; and the
\* video keeps the duration of its scenes.
C2_AudioClamped ==
  (pc = "done" /\ audio_clips # <<>>) =>
    /\ output[1].audio # <<>>
    /\ output[1].audio[1].duration <= output[1].duration
    /\ AudioSpan > SurvivorTotal(Len(scenes)) =>
          output[1].audio[1].duration = output[1].duration
    /\ output[1].duration = SurvivorTotal(Len(scenes))

C2_Witness ==
  /\ pc = "done"
  /\ audio_clips # <<>>
  /\ AudioSpan > SurvivorTotal(Len(scenes))
  /\ output[1].audio[1].duration = output[1].duration

\* C3: the duration of the video timeline is the sum of the parsed durations
\* of the scenes that survive image acquisition, with or without crossfade
\* transitions; with no sound effects the output has no audio track.
C3_TotalDuration ==
  /\ pc \in {"effects", "done"} =>
        final_video[1].duration = SurvivorTotal(Len(scenes))
  /\ pc = "done" =>
        /\ output[1].duration = SurvivorTotal(Len(scenes))
        /\ sfx_log = <<>> => output[1].audio = <<>>

C3_Witness ==
  /\ pc = "done"
  /\ scenes = <<Scene(Num(3), "none", "none"),
                Scene(Str(<<"0", ":", "0", "4">>), "none", "none")>>
  /\ acquired = <<TRUE, TRUE>>
  /\ sfx_log = <<>>
  /\ output = <<[duration |-> 7, audio |-> <<>>]>>

\* C4: when the image acquisition fails for every scene, or there is no
\* scene, the run never reaches the sound effects or the encoding, writes no
\* output, and ends by returning, with no exception left uncaught.
C4_NothingToRender ==
  (\A i \in 1..Len(acquired) : ~acquired[i]) =>
    /\ pc \in {"start", "scenes", "returned", "caught"}
    /\ pc = "caught" => scenes = <<>>
    /\ final_video = <<>> /\ sfx_log = <<>> /\ audio_clips = <<>>
    /\ output = <<>>

C4_Witness ==
  /\ pc = "returned"
  /\ Len(acquired) >= 2
  /\ \A i \in 1..Len(acquired) : ~acquired[i]
  /\ output = <<>>

\* a name with no file under any of the three extensions
Missing(name) ==
  \A i \in 1..Len(Extensions) : <<name, Extensions[i]>> \notin AssetFiles

\* a name whose first file in extension order can be read
Playable(name) ==
  \E i \in 1..Len(Extensions) :
     /\ <<name, Extensions[i]>> \in AssetFiles
     /\ \A j \in 1..(i - 1) : <<name, Extensions[j]>> \notin AssetFiles
     /\ Readable(<<name, Extensions[i]>>)

\* C6: a sound effect whose name matches no asset file raises no error and
\* adds no segment; the other effects are still resolved and added, in
\* order, and the video is still encoded; when no effect resolves the video
\* is encoded with no audio.
C6_MissingAssetSkipped ==
  /\ \A j \in 1..Len(audio_clips) : ~Missing(audio_clips[j].name)
  /\ [j \in 1..Len(audio_clips) |-> audio_clips[j].name]
       = SelectSeq(sfx_log, Playable)
  /\ sfx_log # <<>> => (pc \in {"effects", "done"} /\ error = "none")
  /\ pc = "done" =>
        /\ output # <<>>
        /\ audio_clips = <<>> => output[1].audio = <<>>

C6_Witness ==
  /\ pc = "done"
  /\ sfx_log = <<"nope", "boom">>
  /\ Len(audio_clips) = 1
  /\ audio_clips[1].file = <<"boom", ".wav">>
  /\ output[1].audio # <<>>

\* C9: a scene whose duration parses to 0 never aborts the run, whatever its
\* motion tag.
C9_ZeroDurationHarmless ==
  \A i \in 1..Len(scenes) :
     (acquired[i] /\ ParsedDuration(scenes[i]) = 0) => pc # "caught"
====
